---- MODULE Spec2Model ----
(***************************************************************************)
(* Notification subsystem of the student management system                 *)
(* (Home/school/views.py).  The Notification table, the user store, the    *)
(* standard output stream and the result of the last call are the state;   *)
(* every view and create_notification is one action.  SpecConc splits the  *)
(* dashboard and a mark-read request into their persistence-layer steps.   *)
(***************************************************************************)
EXTENDS Integers, Sequences, FiniteSets, TLC

\* ---------------------------------------------------------------- bounds
NumUsers == 2       \* rows of the user store, pk 1..NumUsers
MaxId    == 2       \* Notification rows ever inserted
MaxLog   == 2       \* lines ever written to standard output

\* ------------------------------------------------------------ Python values
None == [tag |-> "None"]
PyInt(i) == [tag |-> "int", ival |-> i]
PyStr(s) == [tag |-> "str", sval |-> s]
UserObj(pk) == [tag |-> "User", pk |-> pk]

UserPks == 1..NumUsers

\* bool(v): None, 0 and "" are falsy, a model instance is truthy
Truthy(v) ==
    CASE v.tag = "None" -> FALSE
      [] v.tag = "int"  -> v.ival # 0
      [] v.tag = "str"  -> v.sval # <<>>
      [] v.tag = "User" -> TRUE

Digits == <<"0", "1", "2", "3", "4", "5", "6", "7", "8", "9">>
IsDigit(c) == \E d \in 1..10 : Digits[d] = c
DigitVal(c) == (CHOOSE d \in 1..10 : Digits[d] = c) - 1

\* int(s) of the pk field's to_python: base-10 value, ValueError otherwise
IsIntLiteral(s) == Len(s) > 0 /\ \A k \in 1..Len(s) : IsDigit(s[k])
RECURSIVE ParseInt(_)
ParseInt(s) ==
    IF s = <<>> THEN 0
    ELSE 10 * ParseInt(SubSeq(s, 1, Len(s) - 1)) + DigitVal(s[Len(s)])

\* str(i) for the f-string of the warning
RECURSIVE IntToStr(_)
IntToStr(i) ==
    IF i < 10 THEN <<Digits[i + 1]>>
    ELSE IntToStr(i \div 10) \o <<Digits[(i % 10) + 1]>>
Format(v) == IF v.tag = "int" THEN IntToStr(v.ival) ELSE v.sval

\* arguments create_notification is called with
IntArgs == {0, 1, NumUsers + 1}
StrArgs == {<<>>, <<"0", "2">>, <<"a">>}
UserArgs == {None} \cup {UserObj(pk) : pk \in UserPks}
              \cup {PyInt(i) : i \in IntArgs} \cup {PyStr(s) : s \in StrArgs}
              \cup {PyStr(IntToStr(NumUsers + 1))}
MessageArgs == {None, PyStr(<<>>), PyStr(<<"h", "i">>)}
Methods == {"GET", "POST"}

\* ------------------------------------------------------------------ state
VARIABLES
    notifications,  \* the Notification table: rows [id, user, message, is_read]
    nextId,         \* the table's auto-increment primary key
    stdout,         \* lines written by print()
    last,           \* the last call or request and what it returned
    pc, req, query, resp, pre   \* SpecConc: the two requests in flight
vars == <<notifications, nextId, stdout, last, pc, req, query, resp, pre>>
conc == <<pc, req, query, resp, pre>>

Requests == [user : UserPks, method : Methods]

\* --------------------------------------------------------- persistence layer
\* User.objects.get(pk=user) on the integer primary key of the user model
User_objects_get(user) ==
    IF user.tag = "str" /\ ~IsIntLiteral(user.sval)
    THEN [outcome |-> "ValueError"]
    ELSE LET pk == IF user.tag = "int" THEN user.ival ELSE ParseInt(user.sval)
         IN  IF pk \in UserPks
             THEN [outcome |-> "ok", user |-> UserObj(pk)]
             ELSE [outcome |-> "DoesNotExist"]

\* Notification's column default
DefaultIsRead == FALSE

\* Notification.objects.create(**kw): one INSERT with a fresh primary key
objects_create(table, id, kw) ==
    table \cup {[id |-> id, user |-> kw.user, message |-> kw.message,
                 is_read |-> DefaultIsRead]}

\* Notification.objects.filter(**kw): the rows matching every keyword
objects_filter(table, kw) ==
    {n \in table : \A f \in DOMAIN kw : n[f] = kw[f]}

\* QuerySet.count(): one SELECT COUNT(*)
count(table, q) == Cardinality(objects_filter(table, q))

\* variant: the rows are saved one by one and only the first is written
update_first_row(table, q, v) ==
    LET qs == objects_filter(table, q) IN
    IF qs = {} THEN table
    ELSE LET f == CHOOSE n \in qs : \A m \in qs : n.id <= m.id
         IN  (table \ {f}) \cup {[f EXCEPT !.is_read = v]}

\* QuerySet.update(is_read=v): one UPDATE statement over the matching rows
update(table, q, v) ==
    {IF n \in objects_filter(table, q) THEN [n EXCEPT !.is_read = v] ELSE n
        : n \in table}

\* QuerySet.delete(): one DELETE statement over the matching rows
delete(table, q) == table \ objects_filter(table, q)

\* --------------------------------------------------------- create_notification
\* the keyword arguments of Notification.objects.create
create_kwargs(user, message) == [user |-> user.pk, message |-> message.sval]

\* isinstance(user, int) or isinstance(user, str)
IsPrimitive(user) == user.tag = "int" \/ user.tag = "str"

\* variant: the create call sits in the branch of already resolved users
create_notification_skip_resolved(table, id, user, message) ==
    IF Truthy(user) /\ Truthy(message)
    THEN IF IsPrimitive(user)
         THEN LET r == User_objects_get(user) IN
              CASE r.outcome = "ok" ->
                     [table |-> table, lines |-> <<>>, outcome |-> "returned"]
                [] r.outcome = "DoesNotExist" ->
                     [table |-> table, lines |-> <<Format(user)>>,
                      outcome |-> "returned"]
                [] r.outcome = "ValueError" ->
                     [table |-> table, lines |-> <<>>, outcome |-> "ValueError"]
         ELSE [table |-> objects_create(table, id, create_kwargs(user, message)),
               lines |-> <<>>, outcome |-> "returned"]
    ELSE [table |-> table, lines |-> <<>>, outcome |-> "returned"]

\* variant: the except branch returns without the warning
create_notification_quiet(table, id, user, message) ==
    IF Truthy(user) /\ Truthy(message)
    THEN IF IsPrimitive(user)
         THEN LET r == User_objects_get(user) IN
              CASE r.outcome = "ok" ->
                     [table |-> objects_create(table, id, create_kwargs(r.user, message)),
                      lines |-> <<>>, outcome |-> "returned"]
                [] r.outcome = "DoesNotExist" ->
                     [table |-> table, lines |-> <<>>, outcome |-> "returned"]
                [] r.outcome = "ValueError" ->
                     [table |-> table, lines |-> <<>>, outcome |-> "ValueError"]
         ELSE [table |-> objects_create(table, id, create_kwargs(user, message)),
               lines |-> <<>>, outcome |-> "returned"]
    ELSE [table |-> table, lines |-> <<>>, outcome |-> "returned"]

\* what one call does: rows, lines written, and how it ends
create_notification(table, id, user, message) ==
    IF Truthy(user) /\ Truthy(message)
    THEN IF IsPrimitive(user)
         THEN LET r == User_objects_get(user) IN
              CASE r.outcome = "ok" ->
                     [table |-> objects_create(table, id, create_kwargs(r.user, message)),
                      lines |-> <<>>, outcome |-> "returned"]
                [] r.outcome = "DoesNotExist" ->
                     [table |-> table, lines |-> <<Format(user)>>,
                      outcome |-> "returned"]
                [] r.outcome = "ValueError" ->
                     [table |-> table, lines |-> <<>>, outcome |-> "ValueError"]
         ELSE [table |-> objects_create(table, id, create_kwargs(user, message)),
               lines |-> <<>>, outcome |-> "returned"]
    ELSE [table |-> table, lines |-> <<>>, outcome |-> "returned"]

CreateNotification ==
    \E user \in UserArgs, message \in MessageArgs :
        LET r == create_notification(notifications, nextId, user, message) IN
        /\ r.table # notifications => nextId <= MaxId
        /\ Len(stdout) + Len(r.lines) <= MaxLog
        /\ notifications' = r.table
        /\ nextId' = IF r.table # notifications THEN nextId + 1 ELSE nextId
        /\ stdout' = stdout \o r.lines
        /\ last' = [op |-> "create_notification", arg_user |-> user,
                    arg_message |-> message, outcome |-> r.outcome]
        /\ UNCHANGED conc

\* ------------------------------------------------------------------- views
Index ==
    \E request \in Requests :
        /\ last' = [op |-> "index", status |-> 200,
                    template |-> "authentication/login.html"]
        /\ UNCHANGED <<notifications, nextId, stdout, conc>>

\* variant: the filter forgets is_read=False
unread_notification_all(request) == [user |-> request.user]

\* the lazy QuerySet of line 43
unread_notification(request) == [user |-> request.user, is_read |-> FALSE]

dashboard(table, request) ==
    [status |-> 200, template |-> "students/student-dashboard.html",
     unread_notification_count |-> count(table, unread_notification(request))]

Dashboard ==
    \E request \in Requests :
        /\ last' = [op |-> "dashboard", user |-> request.user,
                    response |-> dashboard(notifications, request)]
        /\ UNCHANGED <<notifications, nextId, stdout, conc>>

\* variant: the filter forgets user=request.user
notifications_to_read_any_user(request) == [is_read |-> FALSE]

\* the lazy QuerySet of line 65
notifications_to_read(request) == [user |-> request.user, is_read |-> FALSE]

mark_notification_as_read(table, request) ==
    IF request.method = "POST"
    THEN [table |-> update(table, notifications_to_read(request), TRUE),
          response |-> [status |-> 200, body |-> "{status: success}"]]
    ELSE [table |-> table, response |-> [status |-> 403, body |-> ""]]

MarkNotificationAsRead ==
    \E request \in Requests :
        LET r == mark_notification_as_read(notifications, request) IN
        /\ notifications' = r.table
        /\ last' = [op |-> "mark_notification_as_read", user |-> request.user,
                    method |-> request.method, response |-> r.response]
        /\ UNCHANGED <<nextId, stdout, conc>>

\* variant: only the rows already read are deleted
notifications_to_delete_read_only(request) ==
    [user |-> request.user, is_read |-> TRUE]

\* the lazy QuerySet of line 78
notifications_to_delete(request) == [user |-> request.user]

\* variant: the method test is missing
clear_all_notification_any_method(table, request) ==
    [table |-> delete(table, notifications_to_delete(request)),
     response |-> [status |-> 200, body |-> "{status: success}"]]

clear_all_notification(table, request) ==
    IF request.method = "POST"
    THEN [table |-> delete(table, notifications_to_delete(request)),
          response |-> [status |-> 200, body |-> "{status: success}"]]
    ELSE [table |-> table, response |-> [status |-> 403, body |-> ""]]

ClearAllNotification ==
    \E request \in Requests :
        LET r == clear_all_notification(notifications, request) IN
        /\ notifications' = r.table
        /\ last' = [op |-> "clear_all_notification", user |-> request.user,
                    method |-> request.method, response |-> r.response]
        /\ UNCHANGED <<nextId, stdout, conc>>

\* variant: the filter forgets user=request.user
unread_notifications_any_user(request) == [is_read |-> FALSE]

\* the lazy QuerySet of line 93
unread_notifications(request) == [user |-> request.user, is_read |-> FALSE]

\* variant: the two booleans are swapped
mark_all_notifications_read_flipped(table, request) ==
    IF request.method = "POST"
    THEN [table |-> update(table, [user |-> request.user, is_read |-> TRUE], FALSE),
          response |-> [status |-> 302, body |-> "dashboard"]]
    ELSE [table |-> table, response |-> [status |-> 403, body |-> ""]]

mark_all_notifications_read(table, request) ==
    IF request.method = "POST"
    THEN [table |-> update(table, unread_notifications(request), TRUE),
          response |-> [status |-> 302, body |-> "dashboard"]]
    ELSE [table |-> table, response |-> [status |-> 403, body |-> ""]]

MarkAllNotificationsRead ==
    \E request \in Requests :
        LET r == mark_all_notifications_read(notifications, request) IN
        /\ notifications' = r.table
        /\ last' = [op |-> "mark_all_notifications_read", user |-> request.user,
                    method |-> request.method, response |-> r.response]
        /\ UNCHANGED <<nextId, stdout, conc>>

\* ------------------------------------------------------------ specification
Idle == [dash |-> "idle", mark |-> "idle"]
NoQuery == [dash |-> <<>>, mark |-> <<>>]
NoReq == [dash |-> [user |-> 1, method |-> "GET"],
          mark |-> [user |-> 1, method |-> "POST",
                    view |-> "mark_notification_as_read"]]
NoResp == [dash |-> -1, mark |-> 0]

Init ==
    /\ notifications = {}
    /\ nextId = 1
    /\ stdout = <<>>
    /\ last = [op |-> "init"]
    /\ pc = Idle
    /\ req = NoReq
    /\ query = NoQuery
    /\ resp = NoResp
    /\ pre = {}

Next ==
    \/ CreateNotification
    \/ Index
    \/ Dashboard
    \/ MarkNotificationAsRead
    \/ ClearAllNotification
    \/ MarkAllNotificationsRead

Spec == Init /\ [][Next]_vars

\* ------------------------------------- dashboard and mark-read in flight
\* tables the sequential program can leave behind
Rows == [id : 1..MaxId, user : UserPks, message : {<<"h", "i">>},
         is_read : BOOLEAN]
InitTables ==
    {t \in SUBSET Rows : \A n, m \in t : n.id = m.id => n = m}
MarkViews == {"mark_notification_as_read", "mark_all_notifications_read"}

InitConc ==
    /\ notifications \in InitTables
    /\ nextId = MaxId + 1
    /\ stdout = <<>>
    /\ last = [op |-> "init"]
    /\ pc = [dash |-> "start", mark |-> "start"]
    /\ req \in [dash : Requests,
                 mark : [user : UserPks, method : Methods, view : MarkViews]]
    /\ query = NoQuery
    /\ resp = NoResp
    /\ pre = notifications

\* line 43: filter() builds the QuerySet and reads nothing
DashFilter ==
    /\ pc.dash = "start"
    /\ query' = [query EXCEPT !.dash = unread_notification(req.dash)]
    /\ pc' = [pc EXCEPT !.dash = "filtered"]
    /\ UNCHANGED <<notifications, nextId, stdout, last, req, resp, pre>>

\* line 44: count() runs the SELECT
DashCount ==
    /\ pc.dash = "filtered"
    /\ resp' = [resp EXCEPT !.dash = count(notifications, query.dash)]
    /\ pc' = [pc EXCEPT !.dash = "done"]
    /\ UNCHANGED <<notifications, nextId, stdout, last, req, query, pre>>

\* lines 63-65 and 91-93: the method test, then filter()
MarkFilter ==
    /\ pc.mark = "start"
    /\ IF req.mark.method = "POST"
       THEN /\ query' = [query EXCEPT !.mark =
                    IF req.mark.view = "mark_notification_as_read"
                    THEN notifications_to_read(req.mark)
                    ELSE unread_notifications(req.mark)]
            /\ pc' = [pc EXCEPT !.mark = "filtered"]
            /\ resp' = resp
       ELSE /\ query' = query
            /\ pc' = [pc EXCEPT !.mark = "done"]
            /\ resp' = [resp EXCEPT !.mark = 403]
    /\ UNCHANGED <<notifications, nextId, stdout, last, req, pre>>

\* lines 66-67 and 96-99: update() runs the UPDATE, then the response
MarkUpdate ==
    /\ pc.mark = "filtered"
    /\ notifications' = update(notifications, query.mark, TRUE)
    /\ resp' = [resp EXCEPT !.mark =
                    IF req.mark.view = "mark_notification_as_read"
                    THEN 200 ELSE 302]
    /\ pc' = [pc EXCEPT !.mark = "done"]
    /\ UNCHANGED <<nextId, stdout, last, req, query, pre>>

NextConc ==
    \/ DashFilter
    \/ DashCount
    \/ MarkFilter
    \/ MarkUpdate

SpecConc == InitConc /\ [][NextConc]_vars

\* ================================================================ properties
Views == {"mark_notification_as_read", "mark_all_notifications_read",
          "clear_all_notification"}
Ids(table) == {n.id : n \in table}
OwnedBy(table, u) == {n \in table : n.user = u}
UnreadOf(table, u) == {n \in table : n.user = u /\ n.is_read = FALSE}

\* the user a create_notification argument stands for, 0 when it stands for none
OwnerOf(user) ==
    CASE user.tag = "User" -> user.pk
      [] user.tag = "int"  -> IF user.ival \in UserPks THEN user.ival ELSE 0
      [] user.tag = "str"  ->
            IF IsIntLiteral(user.sval) /\ ParseInt(user.sval) \in UserPks
            THEN ParseInt(user.sval) ELSE 0
      [] OTHER -> 0
NonEmpty(message) == message.tag = "str" /\ message.sval # <<>>
IsCreate(l) == l.op = "create_notification"
ValidCreate(l) ==
    IsCreate(l) /\ NonEmpty(l.arg_message) /\ OwnerOf(l.arg_user) # 0
InvalidCreate(l) ==
    /\ IsCreate(l)
    /\ \/ ~NonEmpty(l.arg_message)
       \/ l.arg_user.tag = "None"
       \/ l.arg_user.tag \in {"int", "str"} /\ OwnerOf(l.arg_user) = 0

\* C1: a create_notification call with a non-empty message and a user that is
\* a user object or an int/str id of a stored user adds exactly one row, owned
\* by that user, carrying the message, unread; every earlier row is unchanged.
C1_CreateAddsOneUnread ==
    [][ValidCreate(last') =>
        \E n \in notifications' :
            /\ n.id \notin Ids(notifications)
            /\ notifications' = notifications \cup {n}
            /\ n.user = OwnerOf(last'.arg_user)
            /\ n.message = last'.arg_message.sval
            /\ n.is_read = FALSE
            /\ last'.outcome = "returned"]_vars

C1_Witness ==
    /\ IsCreate(last) /\ last.arg_user = PyStr(<<"0", "2">>)
    /\ \E n \in notifications :
          n.id = nextId - 1 /\ n.user = 2 /\ n.message = <<"h", "i">>
    /\ Cardinality(notifications) >= 2

\* C2: a create_notification call with an empty message, a falsy user, or an
\* int/str id that resolves to no user leaves the table unchanged and returns
\* normally, no exception escaping.
C2_InvalidCreateIsSilent ==
    [][InvalidCreate(last') =>
        notifications' = notifications /\ last'.outcome = "returned"]_vars

\* C3: the unread count the dashboard renders for a user is the number of
\* unread rows of that user, and right after a POST to either mark-read view
\* by a user that count is 0.
C3_UnreadCount ==
    /\ last.op = "dashboard" =>
          last.response.unread_notification_count
              = Cardinality(UnreadOf(notifications, last.user))
    /\ (last.op \in MarkViews /\ last.method = "POST") =>
          dashboard(notifications, [user |-> last.user, method |-> "GET"])
              .unread_notification_count = 0

C3_Witness ==
    /\ last.op = "dashboard"
    /\ last.response.unread_notification_count = 1
    /\ \E n \in notifications : n.user = last.user /\ n.is_read

\* C4: after a POST to clear_all_notification by a user no row of that user
\* remains and every row of every other user is still there, unchanged.
C4_ClearRemovesOwnOnly ==
    [][(last'.op = "clear_all_notification" /\ last'.method = "POST") =>
        /\ OwnedBy(notifications', last'.user) = {}
        /\ notifications' = notifications \ OwnedBy(notifications, last'.user)]_vars

C4_Witness ==
    /\ last.op = "clear_all_notification" /\ last.method = "POST"
    /\ nextId - 1 > Cardinality(notifications)
    /\ \E n \in notifications : n.user # last.user

\* C5: the three mutating views answer any method other than POST with 403
\* and leave the table unchanged.
C5_NonPostForbidden ==
    [][(last'.op \in Views /\ last'.method # "POST") =>
        last'.response.status = 403 /\ notifications' = notifications]_vars

C5_Witness ==
    /\ last.op = "clear_all_notification" /\ last.method = "GET"
    /\ last.response.status = 403
    /\ UnreadOf(notifications, last.user) # {}

\* C6: a dashboard count running beside a mark-read request returns the
\* user's unread count of the table before the UPDATE or of the table after
\* it (0 when the requests are the same user's), never one in between.
C6_CountIsPreOrPost ==
    pc.dash = "done" =>
        \/ resp.dash = Cardinality(UnreadOf(pre, req.dash.user))
        \/ /\ pc.mark = "done" /\ req.mark.method = "POST"
           /\ req.mark.user = req.dash.user
           /\ resp.dash = 0

C6_Witness ==
    /\ pc.dash = "done" /\ pc.mark = "done"
    /\ req.mark.user = req.dash.user
    /\ Cardinality(UnreadOf(pre, req.dash.user)) >= 2
    /\ resp.dash = 0

\* C7: a row only moves Unread -> Read -> Deleted: no step turns is_read of
\* a row from true to false or changes its owner or message, and the id of a
\* removed row is never in the table again.
C7_Lifecycle ==
    [][/\ \A n \in notifications :
              \/ n \in notifications'
              \/ n.is_read = FALSE
                   /\ [n EXCEPT !.is_read = TRUE] \in notifications'
              \/ n.id \notin Ids(notifications')
       /\ \A m \in notifications' :
              m.id < nextId => m.id \in Ids(notifications)
       /\ nextId' >= nextId]_vars

C7_Witness ==
    /\ IsCreate(last)
    /\ \E i \in 1..(nextId - 1) : i \notin Ids(notifications)
    /\ \E n \in notifications : n.is_read

LookupFindsNone(user) ==
    \/ user.tag = "int" /\ user.ival # 0 /\ user.ival \notin UserPks
    \/ user.tag = "str" /\ IsIntLiteral(user.sval)
          /\ ParseInt(user.sval) \notin UserPks
C10_MarkViewsAgree ==
    \A request \in Requests :
        LET a == mark_notification_as_read(notifications, request)
            b == mark_all_notifications_read(notifications, request)
        IN  /\ a.table = b.table
            /\ IF request.method = "POST"
               THEN /\ a.table =
                        (notifications \ UnreadOf(notifications, request.user))
                        \cup {[id |-> n.id, user |-> n.user,
                               message |-> n.message, is_read |-> TRUE]
                                : n \in UnreadOf(notifications, request.user)}
                    /\ a.response.status = 200 /\ b.response.status = 302
               ELSE /\ a.table = notifications
                    /\ a.response.status = 403 /\ b.response.status = 403

C10_Witness ==
    /\ last.op = "mark_notification_as_read" /\ last.method = "POST"
    /\ OwnedBy(notifications, last.user) # {}
    /\ \E n \in notifications : n.user # last.user /\ ~n.is_read
====
